---- MODULE Spec2Model ----
(***************************************************************************)
(* A model of bvzdisplaylib/displaylib.py: the template colorizer          *)
(* (format_string), the progress bar (display_progress), the refreshable   *)
(* line writer, the boolean formatter and the multiple-choice prompt.      *)
(*                                                                         *)
(* A string is a sequence of one-character strings.  Three characters have *)
(* no printable TLA+ form and are written as tokens: "ESC" (\033), "LF"    *)
(* (the newline) and "BS" (\b).                                            *)
(***************************************************************************)
EXTENDS Integers, Sequences, FiniteSets, TLC

VARIABLES
    pc,           \* where the caller is: which call was made last
    args,         \* the arguments of the most recent call
    ret,          \* its outcome: [raised |-> exception name or "none", value |-> ...]
    prev,         \* what the most recent call started from
    written,      \* the characters the most recent call wrote to sys.stdout
    line,         \* the terminal: visible content of the cursor's line
    col,          \* the terminal: cursor column, 0 = start of line
    old_percent,  \* the caller-held return value of the last display_progress
    stdin         \* the input lines input() has not yet read

vars == <<pc, args, ret, prev, written, line, col, old_percent, stdin>>

(* Python's None where a number may stand: a value no percentage takes.     *)
None == -1

----------------------------------------------------------------------------
(* The colour constants, displaylib.py lines 12-29.                        *)

BLACK          == <<"ESC", "[", "3", "0", "m">>
RED            == <<"ESC", "[", "3", "1", "m">>
GREEN          == <<"ESC", "[", "3", "2", "m">>
YELLOW         == <<"ESC", "[", "3", "3", "m">>
BLUE           == <<"ESC", "[", "3", "4", "m">>
MAGENTA        == <<"ESC", "[", "3", "5", "m">>
CYAN           == <<"ESC", "[", "3", "6", "m">>
WHITE          == <<"ESC", "[", "3", "7", "m">>
BRIGHT_RED     == <<"ESC", "[", "9", "1", "m">>
BRIGHT_GREEN   == <<"ESC", "[", "9", "2", "m">>
BRIGHT_YELLOW  == <<"ESC", "[", "9", "3", "m">>
BRIGHT_BLUE    == <<"ESC", "[", "9", "4", "m">>
BRIGHT_MAGENTA == <<"ESC", "[", "9", "5", "m">>
BRIGHT_CYAN    == <<"ESC", "[", "9", "6", "m">>
BRIGHT_WHITE   == <<"ESC", "[", "9", "7", "m">>
ENDC           == <<"ESC", "[", "0", "m">>
BG_RED         == <<"ESC", "[", "4", "1", "m">>
BLINK          == <<"ESC", "[", "5", "m">>

(* The keyword arguments format_string passes to str.format, lines 138-155. *)
FormatKwargs ==
       <<"B", "L", "A", "C", "K">> :> BLACK @@
       <<"R", "E", "D">> :> RED @@
       <<"G", "R", "E", "E", "N">> :> GREEN @@
       <<"Y", "E", "L", "L", "O", "W">> :> YELLOW @@
       <<"B", "L", "U", "E">> :> BLUE @@
       <<"M", "A", "G", "E", "N", "T", "A">> :> MAGENTA @@
       <<"C", "Y", "A", "N">> :> CYAN @@
       <<"W", "H", "I", "T", "E">> :> WHITE @@
       <<"B", "R", "I", "G", "H", "T", "_", "R", "E", "D">> :> BRIGHT_RED @@
       <<"B", "R", "I", "G", "H", "T", "_", "G", "R", "E", "E", "N">> :> BRIGHT_GREEN @@
       <<"B", "R", "I", "G", "H", "T", "_", "Y", "E", "L", "L", "O", "W">> :> BRIGHT_YELLOW @@
       <<"B", "R", "I", "G", "H", "T", "_", "B", "L", "U", "E">> :> BRIGHT_BLUE @@
       <<"B", "R", "I", "G", "H", "T", "_", "M", "A", "G", "E", "N", "T", "A">> :> BRIGHT_MAGENTA @@
       <<"B", "R", "I", "G", "H", "T", "_", "C", "Y", "A", "N">> :> BRIGHT_CYAN @@
       <<"B", "R", "I", "G", "H", "T", "_", "W", "H", "I", "T", "E">> :> BRIGHT_WHITE @@
       <<"C", "O", "L", "O", "R", "_", "N", "O", "N", "E">> :> ENDC @@
       <<"B", "G", "_", "R", "E", "D">> :> BG_RED @@
       <<"B", "L", "I", "N", "K">> :> BLINK

----------------------------------------------------------------------------
(* Python's string operations, as format_string uses them.                 *)

Digits == {"0", "1", "2", "3", "4", "5", "6", "7", "8", "9"}

(* str.replace(old, new): leftmost, non-overlapping occurrences.           *)
RECURSIVE Replace(_, _, _)
Replace(s, old, new) ==
    IF Len(s) < Len(old) THEN s
    ELSE IF SubSeq(s, 1, Len(old)) = old
         THEN new \o Replace(SubSeq(s, Len(old) + 1, Len(s)), old, new)
         ELSE <<s[1]>> \o Replace(Tail(s), old, new)

(* The index of the character that ends the replacement field whose name   *)
(* starts at i: the first "}" (0 when the string ends first, -1 when a "{" *)
(* comes first).  A "[" skips to the next "]".                             *)
RECURSIVE FieldEnd(_, _, _)
FieldEnd(s, i, inIndex) ==
    IF i > Len(s) THEN 0
    ELSE IF inIndex THEN FieldEnd(s, i + 1, s[i] # "]")
    ELSE IF s[i] = "{" THEN -1
    ELSE IF s[i] = "}" THEN i
    ELSE FieldEnd(s, i + 1, s[i] = "[")

(* The value str.format substitutes for a field name when called with no   *)
(* positional arguments: an empty or all-digit name indexes the empty args *)
(* tuple, any other name is a keyword.                                     *)
GetField(name) ==
    IF \A k \in 1..Len(name) : name[k] \in Digits
    THEN [exc |-> "IndexError", out |-> <<>>]
    ELSE IF name \in DOMAIN FormatKwargs
         THEN [exc |-> "none", out |-> FormatKwargs[name]]
         ELSE [exc |-> "KeyError", out |-> <<>>]

(* str.format with FormatKwargs, from position i, left to right; acc is the   *)
(* text produced so far.  The first error met ends the call.               *)
RECURSIVE Format(_, _, _)
Format(s, i, acc) ==
    IF i > Len(s) THEN [exc |-> "none", out |-> acc]
    ELSE IF s[i] \notin {"{", "}"} THEN Format(s, i + 1, Append(acc, s[i]))
    ELSE IF i < Len(s) /\ s[i + 1] = s[i] THEN Format(s, i + 2, Append(acc, s[i]))
    ELSE IF s[i] = "}" \/ i = Len(s) THEN [exc |-> "ValueError", out |-> <<>>]
    ELSE LET e == FieldEnd(s, i + 1, FALSE)
             f == GetField(SubSeq(s, i + 1, e - 1))
         IN  IF e <= 0 THEN [exc |-> "ValueError", out |-> <<>>]
             ELSE IF f.exc # "none" THEN f
             ELSE Format(s, e + 1, acc \o f.out)

(* lines 132-134: backslash-n to a newline, doubled braces to single ones. *)
Unescape(msg) ==
    Replace(Replace(Replace(msg, <<"\\", "n">>, <<"LF">>), <<"{", "{">>, <<"{">>),
            <<"}", "}">>, <<"}">>)

(* format_string, lines 121-162: only KeyError is caught.                  *)
format_string(msg) ==
    LET output == Unescape(msg)
        f == Format(output, 1, <<>>)
    IN  IF f.exc = "none" THEN [raised |-> "none", value |-> f.out \o ENDC]
        ELSE IF f.exc = "KeyError" THEN [raised |-> "none", value |-> output \o ENDC]
        ELSE [raised |-> f.exc, value |-> <<>>]

----------------------------------------------------------------------------
(* Python's number and sequence operations, as display_progress uses them. *)

(* round(n / d) for n >= 0, d > 0: the nearest integer, a tie to the even  *)
(* one (Python's round).                                                   *)
RoundHalfEven(n, d) ==
    LET q == n \div d
        r == n % d
    IN  IF 2 * r < d THEN q
        ELSE IF 2 * r > d THEN q + 1
        ELSE IF q % 2 = 0 THEN q ELSE q + 1

(* int(n / 2): truncation towards zero.                                    *)
IntHalf(n) == IF n >= 0 THEN n \div 2 ELSE -((-n) \div 2)

(* c * n: n copies of the string c, none when n <= 0.                      *)
Repeat(c, n) ==
    IF n <= 0 THEN <<>> ELSE [i \in 1..(n * Len(c)) |-> c[((i - 1) % Len(c)) + 1]]

(* str(n) for an integer n >= 0.                                           *)
DigitChar(d) == <<"0", "1", "2", "3", "4", "5", "6", "7", "8", "9">>[d + 1]

RECURSIVE Str(_)
Str(n) == IF n < 10 THEN <<DigitChar(n)>> ELSE Append(Str(n \div 10), DigitChar(n % 10))

(* s[:k] and s[k:], a negative k counting from the end.                    *)
SliceTo(s, k) ==
    LET e == IF k < 0 THEN Len(s) + k ELSE k
    IN  SubSeq(s, 1, IF e > Len(s) THEN Len(s) ELSE e)

SliceFrom(s, k) ==
    LET b == IF k < 0 THEN Len(s) + k ELSE k
    IN  SubSeq(s, (IF b < 0 THEN 0 ELSE b) + 1, Len(s))

----------------------------------------------------------------------------
(* display_progress, lines 33-103.  A percentage is held in tenths of a    *)
(* percent: 505 is 50.5.                                                   *)

(* lines 62-64: only even widths.                                          *)
EvenWidth(width) == IF width % 2 # 0 THEN width - 1 ELSE width

(* line 67: round(count * 1.0 / total * 100, 1), in tenths.                *)
Percent(count, total) == RoundHalfEven(count * 1000, total)

(* lines 74-75: the number of completed segments,                          *)
(* int(round(percent / (100 / width))).  The quotient is taken exactly; on *)
(* the inputs of this model (0 <= count <= total) Python's floating-point  *)
(* quotient rounds to the same integer.                                    *)
DoneCount(percent, width) == RoundHalfEven(percent * width, 1000)

done_str(percent, width, completed_char) ==
    Repeat(completed_char, DoneCount(percent, width))

empty_str(percent, width, empty_char) ==
    Repeat(empty_char, width - DoneCount(percent, width))

(* line 78 *)
count_str(count, total) ==
    <<" ", "(">> \o BRIGHT_WHITE \o Str(count) \o ENDC \o <<" ", "o", "f", " ">>
        \o BRIGHT_WHITE \o Str(total) \o ENDC \o <<")">>

(* A label padded by a fixed two spaces whatever the number of digits.     *)
percent_str_fixed_pad(percent) ==
    <<" ", " ">> \o Str(percent \div 10) \o <<".">> \o Str(percent % 10) \o <<"%", " ">>

(* line 81; str(percent) always shows one decimal.                         *)
percent_str(percent) ==
    Repeat(<<" ">>, 4 - Len(Str(percent \div 10)))
        \o Str(percent \div 10) \o <<".">> \o Str(percent % 10) \o <<"%", " ">>

(* line 84 *)
bar_str(percent, width, completed_char, empty_char) ==
    <<"[">> \o done_str(percent, width, completed_char)
            \o empty_str(percent, width, empty_char) \o <<"]">>

(* line 85 *)
progress_left(bar, label) ==
    SliceTo(bar, IntHalf(Len(bar) - 2 * (Len(label) \div 2)) + 2)

(* line 86 *)
progress_right(bar, label) ==
    SliceFrom(bar, IntHalf(Len(bar) + 2 * ((Len(label) + 1) \div 2)) + 2)

(* lines 84-95: the string display_progress writes.                        *)
progress_bar_str(count, total, width, completed_char, empty_char, postpend_str) ==
    LET percent == Percent(count, total)
        bar     == bar_str(percent, EvenWidth(width), completed_char, empty_char)
        label   == percent_str(percent)
    IN  progress_left(bar, label) \o BRIGHT_YELLOW \o label \o ENDC
            \o progress_right(bar, label) \o count_str(count, total) \o postpend_str

(* A suppression test without the exemption of 0.                          *)
SuppressedAlsoAtZero(percent, old) == percent = old

(* line 70: the suppression test.                                          *)
Suppressed(percent, old) == percent = old /\ percent # 0

----------------------------------------------------------------------------
(* The terminal sys.stdout is attached to: a line of visible characters    *)
(* and a cursor column.  A printable character overwrites the cell under   *)
(* the cursor and moves right, "BS" moves left and stops at column 0, "LF"  *)
(* starts a new empty line, and an escape sequence ("ESC" up to its final  *)
(* "m") changes the style only: it occupies no column.                     *)

Special == {"ESC", "BS", "LF"}

(* The length of the longest prefix of s made of characters in S (when in  *)
(* is TRUE) or of characters not in S (when it is FALSE).                  *)
RunLen(s, S, in) ==
    LET stops == {i \in 1..Len(s) : (s[i] \in S) # in}
    IN  IF stops = {} THEN Len(s)
        ELSE (CHOOSE i \in stops : \A j \in stops : i <= j) - 1

(* The line after the printable characters run are written from column c.  *)
Overwrite(ln, c, run) ==
    [i \in 1..(IF Len(ln) > c + Len(run) THEN Len(ln) ELSE c + Len(run)) |->
        IF c < i /\ i <= c + Len(run) THEN run[i - c] ELSE ln[i]]

(* The terminal after the characters s are written at line ln, column c,   *)
(* taken a run of like characters at a time.                               *)
RECURSIVE TermWrite(_, _, _)
TermWrite(ln, c, s) ==
    IF s = <<>> THEN [line |-> ln, col |-> c]
    ELSE IF Head(s) = "ESC"
         THEN LET k == RunLen(Tail(s), {"m"}, FALSE)
              IN  TermWrite(ln, c, SubSeq(s, k + 3, Len(s)))
    ELSE IF Head(s) = "BS"
         THEN LET k == RunLen(s, {"BS"}, TRUE)
              IN  TermWrite(ln, IF c > k THEN c - k ELSE 0, SubSeq(s, k + 1, Len(s)))
    ELSE IF Head(s) = "LF" THEN TermWrite(<<>>, 0, Tail(s))
    ELSE LET k == RunLen(s, Special, FALSE)
         IN  TermWrite(Overwrite(ln, c, SubSeq(s, 1, k)), c + k, SubSeq(s, k + 1, Len(s)))

(* Whether s[i] belongs to an escape sequence: an "ESC" at or before it    *)
(* with no "m" strictly between.                                           *)
InEscape(s, i) ==
    \E j \in 1..i : s[j] = "ESC" /\ \A k \in (j + 1)..(i - 1) : s[k] # "m"

(* The characters of s that occupy a column: s without its escape          *)
(* sequences and backspaces.                                               *)
Visible(s) ==
    LET keep == {i \in 1..Len(s) : s[i] # "BS" /\ ~InEscape(s, i)}
    IN  [n \in 1..Cardinality(keep) |->
            s[CHOOSE i \in keep : Cardinality({j \in keep : j <= i}) = n]]

(* How many of the characters of s are backspaces.                         *)
Backspaces(s) == Cardinality({i \in 1..Len(s) : s[i] = "BS"})

(* The string the last call that wrote anything wrote before its           *)
(* backspaces: the first half of what it wrote.                            *)
Shown == IF written = <<>> THEN prev.shown ELSE SubSeq(written, 1, Len(written) \div 2)

(* A write that is not followed by the backspaces.                         *)
WriteOnly(text) == text

(* lines 98-100 and 307-309: sys.stdout.write(text), flush, then           *)
(* sys.stdout.write("\b" * len(text)).                                     *)
WriteThenBackspace(text) == text \o Repeat(<<"BS">>, Len(text))

----------------------------------------------------------------------------
(* Bounds of the model.                                                    *)

MaxTotal == 4       \* display_progress: total in 1..MaxTotal, count in 0..total
MaxCol == 1         \* the cursor column the first call starts at, 0..MaxCol

(* The widths a caller asks for; 100 / width needs width >= 2 after the    *)
(* rounding down to an even width, as count / total needs total >= 1.      *)
Widths == {10, 13}

Postpends == {<<>>, <<"!">>}

(* The argument lists given to display_refreshable_message: plain text of  *)
(* several lengths, colour tags, an unrecognized tag, a backslash-n and a  *)
(* numeric tag.                                                            *)
MsgArgs ==
    { <<<<"a">>>>, <<<<"b", "b">>>>, <<<<"a">>, <<"b", "b">>>>,
      <<<<"c", "c", "c", "c", "c">>>>,
      <<<<"{", "{", "R", "E", "D", "}", "}">>>>,
      <<<<"{", "{", "B", "L", "I", "N", "K", "}", "}", "d">>>>,
      <<<<"{", "{", "U", "}", "}">>>>,
      <<<<"e", "\\", "n", "f">>>>,
      <<<<"{", "{", "0", "}", "}">>>> }

NoRet == [raised |-> "none", value |-> None]

----------------------------------------------------------------------------
(* The display calls, on one terminal.                                     *)

Init ==
    /\ pc = "start"
    /\ args = <<>>
    /\ ret = NoRet
    /\ prev = [col |-> 0, old_percent |-> None]
    /\ written = <<>>
    /\ col \in 0..MaxCol
    /\ line = Repeat(<<">">>, col)
    /\ old_percent = None
    /\ stdin = <<>>

(* display_progress(count, total, old_percent, width, postpend_str=...),   *)
(* lines 33-103; the caller keeps the return value as the next call's      *)
(* old_percent.                                                            *)
display_progress(count, total, width, postpend_str) ==
    \E out \in {IF Suppressed(Percent(count, total), old_percent) THEN <<>>
                ELSE WriteThenBackspace(
                         progress_bar_str(count, total, width, <<"#">>, <<".">>,
                                          postpend_str))} :
    \E term \in {TermWrite(line, col, out)} :
        /\ pc' = "display_progress"
        /\ args' = [count |-> count, total |-> total, width |-> width,
                    postpend_str |-> postpend_str]
        /\ prev' = [col |-> col, old_percent |-> old_percent]
        /\ written' = out
        /\ line' = term.line
        /\ col' = term.col
        /\ ret' = [raised |-> "none", value |-> Percent(count, total)]
        /\ old_percent' = Percent(count, total)
        /\ UNCHANGED stdin

(* The caller starts the bar again: its next call passes None.             *)
NewProgress ==
    /\ old_percent # None
    /\ old_percent' = None
    /\ pc' = "new_progress"
    /\ UNCHANGED <<args, ret, prev, written, line, col, stdin>>

(* " ".join(msgs), line 305.                                               *)
RECURSIVE Join(_)
Join(msgs) ==
    IF Len(msgs) = 0 THEN <<>>
    ELSE IF Len(msgs) = 1 THEN msgs[1]
    ELSE msgs[1] \o <<" ">> \o Join(Tail(msgs))

(* display_refreshable_message, lines 293-309.  prev.shown keeps the       *)
(* string that was on show when the call started.                          *)
display_refreshable_message(msgs) ==
    \E message \in {format_string(Join(msgs))} :
    \E out \in {IF message.raised = "none" THEN WriteThenBackspace(message.value)
                ELSE <<>>} :
    \E term \in {TermWrite(line, col, out)} :
        /\ pc' = "display_refreshable_message"
        /\ args' = [msgs |-> msgs]
        /\ prev' = [col |-> col, shown |-> Shown]
        /\ written' = out
        /\ line' = term.line
        /\ col' = term.col
        /\ ret' = [raised |-> message.raised, value |-> None]
        /\ UNCHANGED <<old_percent, stdin>>

(* A caller draws one bar at a time: the width and the appended string     *)
(* stay as its first call gave them.                                       *)
SameBar(width, postpend_str) ==
    IF pc = "start" THEN TRUE
    ELSE args.width = width /\ args.postpend_str = postpend_str

Next ==
    \/ \E total \in 1..MaxTotal, width \in Widths, postpend_str \in Postpends :
           \E count \in 0..total :
               /\ SameBar(width, postpend_str)
               /\ display_progress(count, total, width, postpend_str)
    \/ NewProgress

Spec == Init /\ [][Next]_vars

InitRefresh ==
    /\ pc = "start"
    /\ args = <<>>
    /\ ret = NoRet
    /\ prev = [col |-> 0, shown |-> <<>>]
    /\ written = <<>>
    /\ col \in 0..MaxCol
    /\ line = Repeat(<<">">>, col)
    /\ old_percent = None
    /\ stdin = <<>>

NextRefresh == \E msgs \in MsgArgs : display_refreshable_message(msgs)

SpecRefresh == InitRefresh /\ [][NextRefresh]_vars

----------------------------------------------------------------------------
(* format_string on its own: one call on a template, then one call on the  *)
(* string that call returned.                                              *)

MaxPieces == 5      \* a template is at most MaxPieces pieces long

(* What templates are made of: single and doubled braces, a backslash, a   *)
(* letter, a digit, a palette name and a name that is no palette name.     *)
Pieces ==
    { <<"{">>, <<"}">>, <<"{", "{">>, <<"}", "}">>, <<"\\">>, <<"n">>, <<"0">>,
      <<"R", "E", "D">>, <<"U">> }

RECURSIVE Concat(_)
Concat(ps) == IF ps = <<>> THEN <<>> ELSE Head(ps) \o Concat(Tail(ps))

InitFormat ==
    /\ pc = "start"
    /\ args = <<>>
    /\ ret = NoRet
    /\ prev = [msg |-> <<>>, raised |-> "none", value |-> <<>>]
    /\ written = <<>>
    /\ line = <<>>
    /\ col = 0
    /\ old_percent = None
    /\ stdin = <<>>

(* format_string(msg), lines 121-162.                                      *)
FormatString(msg) ==
    /\ pc = "start"
    /\ pc' = "format_string"
    /\ args' = [msg |-> msg]
    /\ ret' = format_string(msg)
    /\ UNCHANGED <<prev, written, line, col, old_percent, stdin>>

(* format_string(format_string(msg)): the returned string is formatted     *)
(* again; prev keeps the first call.                                       *)
FormatAgain ==
    /\ pc = "format_string"
    /\ ret.raised = "none"
    /\ pc' = "format_string_again"
    /\ args' = [msg |-> ret.value]
    /\ prev' = [msg |-> args.msg, raised |-> ret.raised, value |-> ret.value]
    /\ ret' = format_string(ret.value)
    /\ UNCHANGED <<written, line, col, old_percent, stdin>>

NextFormat ==
    \/ /\ pc = "start"
       /\ \E n \in 0..MaxPieces : \E ps \in [1..n -> Pieces] : FormatString(Concat(ps))
    \/ FormatAgain

SpecFormat == InitFormat /\ [][NextFormat]_vars

----------------------------------------------------------------------------
(* str.upper() on the letters the model uses.                              *)

LowerLetters == <<"a", "e", "f", "l", "n", "o", "r", "s", "t", "u", "y">>
UpperLetters == <<"A", "E", "F", "L", "N", "O", "R", "S", "T", "U", "Y">>

UpperChar(c) ==
    IF \E i \in 1..Len(LowerLetters) : LowerLetters[i] = c
    THEN UpperLetters[CHOOSE i \in 1..Len(LowerLetters) : LowerLetters[i] = c]
    ELSE c

Upper(s) == [i \in 1..Len(s) |-> UpperChar(s[i])]

----------------------------------------------------------------------------
(* format_boolean, lines 259-289.  A value is a bool or a str.             *)

Bool(b) == [type |-> "bool", val |-> b]
StrVal(s) == [type |-> "str", val |-> s]

(* str(value), line 279.                                                   *)
StrOf(value) ==
    IF value.type = "bool"
    THEN IF value.val THEN <<"T", "r", "u", "e">> ELSE <<"F", "a", "l", "s", "e">>
    ELSE value.val

TRUE_STR  == <<"T", "R", "U", "E">>
FALSE_STR == <<"F", "A", "L", "S", "E">>

(* line 277 *)
ValueAccepted(value) ==
    value.type = "bool" \/ Upper(value.val) \in {TRUE_STR, FALSE_STR}

(* lines 279-289; invert_color is a parameter the body never reads.        *)
format_boolean_value(value, colorize, invert_color) ==
    LET isTrue       == Upper(StrOf(value)) = TRUE_STR
        color        == IF isTrue
                        THEN <<"B", "R", "I", "G", "H", "T", "_", "G", "R", "E", "E", "N">>
                        ELSE <<"B", "R", "I", "G", "H", "T", "_", "R", "E", "D">>
        return_value == IF isTrue THEN <<"Y", "e", "s">> ELSE <<"N", "o">>
    IN  IF colorize
        THEN format_string(<<"{", "{">> \o color \o <<"}", "}">> \o return_value)
        ELSE [raised |-> "none", value |-> return_value]

(* The str values tried: every letter case of "true" and of "false", and   *)
(* one string the assertion refuses.                                       *)
LowerChar(c) ==
    IF \E i \in 1..Len(UpperLetters) : UpperLetters[i] = c
    THEN LowerLetters[CHOOSE i \in 1..Len(UpperLetters) : UpperLetters[i] = c]
    ELSE c

CaseVariants(s) ==
    {[i \in 1..Len(s) |-> IF up[i] THEN s[i] ELSE LowerChar(s[i])] :
        up \in [1..Len(s) -> BOOLEAN]}

BooleanValues ==
    {Bool(TRUE), Bool(FALSE)}
        \cup {StrVal(t) : t \in CaseVariants(TRUE_STR) \cup CaseVariants(FALSE_STR)}
        \cup {StrVal(<<"y", "e", "s">>)}

format_boolean(value, colorize, invert_color) ==
    /\ pc = "start"
    /\ pc' = "format_boolean"
    /\ args' = [value |-> value, colorize |-> colorize, invert_color |-> invert_color]
    /\ ret' = IF ValueAccepted(value)
              THEN format_boolean_value(value, colorize, invert_color)
              ELSE [raised |-> "AssertionError", value |-> <<>>]
    /\ UNCHANGED <<prev, written, line, col, old_percent, stdin>>

NextBoolean ==
    /\ pc = "start"
    /\ \E value \in BooleanValues, colorize \in BOOLEAN, invert_color \in BOOLEAN :
           format_boolean(value, colorize, invert_color)

SpecBoolean == InitFormat /\ [][NextBoolean]_vars

----------------------------------------------------------------------------
(* multiple_choice_user_input, lines 179-255.  An optional argument is     *)
(* [some |-> FALSE] for None and [some |-> TRUE, val |-> v] otherwise; a    *)
(* dict is the sequence of its <<key, value>> items.                       *)

MaxInputs == 2      \* the user types at most MaxInputs lines

Absent == [some |-> FALSE]
Some(v) == [some |-> TRUE, val |-> v]

LegalAnswerLists == { <<<<"Y">>, <<"N">>>>, <<<<"y">>, <<"n">>>>, <<<<"Y">>>> }

AlternateDicts ==
    { Absent, Some(<< <<<<"a">>, <<"Y">>>> >>), Some(<< <<<<"A">>, <<"n">>>> >>) }

Defaults == { Absent, Some(<<"Y">>), Some(<<"n">>) }

InputLines == { <<>>, <<"y">>, <<"Y">>, <<"n">>, <<"a">>, <<"o">> }

(* The prompt the caller passes as msgs.                                   *)
PromptMsgs == << <<"?">> >>

SeqToSet(q) == {q[i] : i \in 1..Len(q)}

(* line 212 *)
options(legal_answers) == [i \in 1..Len(legal_answers) |-> Upper(legal_answers[i])]

(* lines 207-219: the assertions made when the call starts.                *)
ArgumentsAccepted(legal_answers, alternate_legal_answers, default) ==
    /\ alternate_legal_answers.some =>
           \A i \in 1..Len(alternate_legal_answers.val) :
               Upper(alternate_legal_answers.val[i][2]) \in SeqToSet(options(legal_answers))
    /\ default.some => Upper(default.val) \in SeqToSet(options(legal_answers))

(* lines 221-223 *)
alternate_options(alternate_legal_answers) ==
    IF alternate_legal_answers.some
    THEN {Upper(alternate_legal_answers.val[i][1]) :
              i \in 1..Len(alternate_legal_answers.val)}
    ELSE {}

(* lines 225-228 and 253: alternate_legal_answers_upper[key]; the item     *)
(* entered last wins.                                                      *)
alternate_legal_answers_upper(alternate_legal_answers, key) ==
    LET items == alternate_legal_answers.val
        hits  == {i \in 1..Len(items) : Upper(items[i][1]) = key}
    IN  items[CHOOSE i \in hits : \A j \in hits : j <= i][2]

(* line 230 *)
RECURSIVE JoinWith(_, _)
JoinWith(sep, strs) ==
    IF Len(strs) = 0 THEN <<>>
    ELSE IF Len(strs) = 1 THEN strs[1]
    ELSE strs[1] \o sep \o JoinWith(sep, Tail(strs))

options_str(legal_answers) ==
    <<"(">> \o JoinWith(<<",">>, options(legal_answers)) \o <<")">>

(* line 236: the loop's condition, on the local variable result.           *)
LoopCondition(result) ==
    /\ Upper(result) \notin SeqToSet(args.legal_answers)
    /\ Upper(result) \notin alternate_options(args.alternate_legal_answers)

(* lines 237-242: what one turn of the loop prints before it reads.        *)
PromptText ==
    format_string(JoinWith(<<" ">>, Append(PromptMsgs, options_str(args.legal_answers)))).value
        \o <<"LF">>
        \o (IF args.default.some
            THEN format_string(<<"(", "{", "B", "R", "I", "G", "H", "T", "_", "Y", "E",
                                 "L", "L", "O", "W", "}">> \o Upper(args.default.val)
                               \o <<"{", "C", "O", "L", "O", "R", "_", "N", "O", "N", "E",
                                    "}", ")", " ", ">", " ">>).value
            ELSE <<">", " ">>)

InitChoice ==
    /\ pc = "start"
    /\ args = <<>>
    /\ ret = NoRet
    /\ prev = [read |-> FALSE, typed |-> <<>>]
    /\ written = <<>>
    /\ line = <<>>
    /\ col = 0
    /\ old_percent = None
    /\ stdin \in UNION {[1..n -> InputLines] : n \in 0..MaxInputs}

(* lines 207-235: the call, up to the loop.                                *)
multiple_choice_user_input(legal_answers, alternate_legal_answers, default) ==
    /\ pc = "start"
    /\ args' = [legal_answers |-> legal_answers,
                alternate_legal_answers |-> alternate_legal_answers,
                default |-> default]
    /\ IF ArgumentsAccepted(legal_answers, alternate_legal_answers, default)
       THEN pc' = "loop" /\ ret' = [raised |-> "none", value |-> <<>>]
       ELSE pc' = "done" /\ ret' = [raised |-> "AssertionError", value |-> <<>>]
    /\ UNCHANGED <<prev, written, line, col, old_percent, stdin>>

(* lines 236-250: one turn of the loop; input() takes the next line, which *)
(* the terminal echoes.                                                    *)
PromptOnce ==
    /\ pc = "loop"
    /\ LoopCondition(ret.value)
    /\ stdin # <<>>
    /\ \E term \in {TermWrite(line, col, PromptText \o Head(stdin) \o <<"LF">>)} :
           line' = term.line /\ col' = term.col
    /\ written' = PromptText
    /\ prev' = [read |-> TRUE, typed |-> Head(stdin)]
    /\ stdin' = Tail(stdin)
    /\ ret' = [raised |-> "none",
               value |-> IF Head(stdin) = <<>> /\ args.default.some
                         THEN Upper(args.default.val) ELSE Head(stdin)]
    /\ UNCHANGED <<pc, args, old_percent>>

(* lines 246-247: Ctrl-C while input() waits ends the process.             *)
KeyboardInterrupt ==
    /\ pc = "loop"
    /\ LoopCondition(ret.value)
    /\ pc' = "exit"
    /\ written' = PromptText
    /\ UNCHANGED <<args, ret, prev, line, col, old_percent, stdin>>

(* lines 252-255: the loop is over; the answer is returned.                *)
ReturnAnswer ==
    /\ pc = "loop"
    /\ ~LoopCondition(ret.value)
    /\ pc' = "done"
    /\ ret' = [raised |-> "none",
               value |-> IF Upper(ret.value) \in alternate_options(args.alternate_legal_answers)
                         THEN Upper(alternate_legal_answers_upper(
                                        args.alternate_legal_answers, Upper(ret.value)))
                         ELSE Upper(ret.value)]
    /\ UNCHANGED <<args, prev, written, line, col, old_percent, stdin>>

NextChoice ==
    \/ /\ pc = "start"
       /\ \E legal_answers \in LegalAnswerLists, alternate_legal_answers \in AlternateDicts,
             default \in Defaults :
              multiple_choice_user_input(legal_answers, alternate_legal_answers, default)
    \/ PromptOnce
    \/ KeyboardInterrupt
    \/ ReturnAnswer

SpecChoice == InitChoice /\ [][NextChoice]_vars

----------------------------------------------------------------------------
(* The properties checked.                                                 *)

Drew == pc = "display_progress" /\ written # <<>>

(* C1 (Spec): with each call's return value passed on as the next call's   *)
(* old_percent (None at first), a display_progress call writes to standard *)
(* output exactly when its percent, count / total * 100 rounded to one     *)
(* decimal, differs from the previous call's or is 0; a suppressed call    *)
(* writes nothing, leaves the cursor alone and returns the unchanged       *)
(* percent.                                                                *)
C1_WritesIffPercentChangedOrZero ==
    pc = "display_progress" =>
        /\ 2 * ret.value * args.total - 2000 * args.count <= args.total
        /\ 2000 * args.count - 2 * ret.value * args.total <= args.total
        /\ (written # <<>>) <=> (ret.value # prev.old_percent \/ ret.value = 0)
        /\ written = <<>> => (ret.value = prev.old_percent /\ col = prev.col)
        /\ old_percent = ret.value

(* C1's case: a second call at 100% that was suppressed.                   *)
C1_Witness ==
    /\ pc = "display_progress"
    /\ ret.value = 1000
    /\ prev.old_percent = 1000
    /\ written = <<>>

(* C3 (Spec): after display_progress or display_refreshable_message wrote, *)
(* the number of backspaces written equals the number of visible           *)
(* characters written, and the cursor is back at the column the call       *)
(* started at, whatever that column was.                                   *)
C3_BackspacesEqualVisible ==
    (pc \in {"display_progress", "display_refreshable_message"} /\ written # <<>>) =>
        /\ Backspaces(written) = Len(Visible(written))
        /\ col = prev.col

(* C4 (Spec): when display_progress draws, what stands before the count    *)
(* suffix is a bar that begins with "[" and ends with "]", with the        *)
(* percentage label at its centre: as many bar characters left of the      *)
(* label as right of it.                                                   *)
C4_LabelCentredInBrackets ==
    Drew =>
        LET vis    == Visible(written)
            suffix == Visible(count_str(args.count, args.total)) \o args.postpend_str
            bar    == SubSeq(vis, 1, Len(vis) - Len(suffix))
            label  == percent_str(ret.value)
            left   == (Len(bar) - Len(label)) \div 2
        IN  /\ SubSeq(vis, Len(bar) + 1, Len(vis)) = suffix
            /\ Len(bar) >= Len(label) + 2
            /\ bar[1] = "["
            /\ bar[Len(bar)] = "]"
            /\ 2 * left + Len(label) = Len(bar)
            /\ SubSeq(bar, left + 1, left + Len(label)) = label

(* The percentage label as it was written: the characters between the      *)
(* BRIGHT_YELLOW code and the reset code after it.                         *)
WrittenLabel ==
    LET starts == {i \in 1..(Len(written) - 4) : SubSeq(written, i, i + 4) = BRIGHT_YELLOW}
        first  == CHOOSE i \in starts : \A j \in starts : i <= j
        ends   == {i \in (first + 5)..Len(written) : written[i] = "ESC"}
        last   == CHOOSE i \in ends : \A j \in ends : i <= j
    IN  SubSeq(written, first + 5, last - 1)

(* C10 as stated (Spec): every percentage label display_progress draws     *)
(* with 0 <= count <= total is 6 characters long.                          *)
C10_LabelIsSixLong ==
    (Drew /\ args.count <= args.total) => Len(WrittenLabel) = 6

(* C10, amended (Spec): every percentage label display_progress draws with *)
(* 0 <= count <= total (leading spaces, the percent with one decimal, "%", *)
(* one trailing space) is 8 characters long, whether the integer part of   *)
(* the percent has 1, 2 or 3 digits.                                       *)
C10_LabelIsEightLong ==
    (Drew /\ args.count <= args.total) =>
        LET label  == WrittenLabel
            digits == Str(ret.value \div 10) \o <<".">> \o Str(ret.value % 10)
            pad    == 8 - Len(digits) - 2
        IN  /\ Len(label) = 8
            /\ Len(Str(ret.value \div 10)) \in 1..3
            /\ pad >= 1
            /\ \A i \in 1..pad : label[i] = " "
            /\ SubSeq(label, pad + 1, 6) = digits
            /\ label[7] = "%"
            /\ label[8] = " "

(* C10's case: a label drawn for a percent with a three-digit integer part. *)
C10_Witness == Drew /\ ret.value = 1000 /\ Len(WrittenLabel) = 8

(* Whether the string s holds a line break.                                *)
HasLineBreak(s) == \E i \in 1..Len(s) : s[i] = "LF"

(* C9 as stated (SpecRefresh): when the line shows exactly the previous    *)
(* message with the cursor at column 0, and a display_refreshable_message  *)
(* call renders a string (escape codes counted) at least as long as the    *)
(* previous one, then the line shows exactly the new message's visible     *)
(* text and the cursor is at column 0.  (Messages with a line break are    *)
(* left aside.)                                                            *)
C9_FreshWhenRenderedLengthGrows ==
    [][ ( /\ pc' = "display_refreshable_message"
          /\ ret'.raised = "none"
          /\ line = Visible(Shown) /\ col = 0
          /\ ~HasLineBreak(Shown')
          /\ Len(Shown') >= Len(Shown) )
        => (line' = Visible(Shown') /\ col' = 0) ]_vars

(* C9, amended (SpecRefresh): when the line shows exactly the previous     *)
(* message with the cursor at column 0, and a display_refreshable_message  *)
(* call writes a message that has no line break and whose visible text     *)
(* (escape codes not counted) is at least as long as the previous one's,   *)
(* then the line shows exactly the new message's visible text, with no     *)
(* stale character, and the cursor is at column 0.                         *)
C9_FreshWhenVisibleLengthGrows ==
    [][ ( /\ pc' = "display_refreshable_message"
          /\ ret'.raised = "none"
          /\ line = Visible(Shown) /\ col = 0
          /\ ~HasLineBreak(Shown')
          /\ Len(Visible(Shown')) >= Len(Visible(Shown)) )
        => (line' = Visible(Shown') /\ col' = 0) ]_vars

(* C9's case: after an earlier message, a call wrote a visibly longer one  *)
(* from column 0 and the line shows exactly it.                            *)
C9_Witness ==
    /\ pc = "display_refreshable_message"
    /\ ret.raised = "none"
    /\ prev.col = 0
    /\ Visible(prev.shown) # <<>>
    /\ Len(Visible(Shown)) > Len(Visible(prev.shown))
    /\ line = Visible(Shown)
    /\ col = 0

(* C5 (SpecFormat): format_string returns a string for every input and     *)
(* never raises.                                                           *)
C5_NeverRaises == pc = "format_string" => ret.raised = "none"

(* The names of the replacement fields str.format meets in s from position *)
(* i on, with Malformed among them when the braces of s do not parse.      *)
Malformed == <<"{">>

RECURSIVE FieldNames(_, _)
FieldNames(s, i) ==
    IF i > Len(s) THEN {}
    ELSE IF s[i] \notin {"{", "}"} THEN FieldNames(s, i + 1)
    ELSE IF i < Len(s) /\ s[i + 1] = s[i] THEN FieldNames(s, i + 2)
    ELSE IF s[i] = "}" \/ i = Len(s) THEN {Malformed}
    ELSE LET e == FieldEnd(s, i + 1, FALSE)
         IN  IF e <= 0 THEN {Malformed}
             ELSE {SubSeq(s, i + 1, e - 1)} \cup FieldNames(s, e + 1)

(* A well-formed named placeholder whose name is no palette symbol.        *)
UnknownName(name) ==
    /\ name # <<>>
    /\ \E k \in 1..Len(name) : name[k] \notin Digits
    /\ name \notin DOMAIN FormatKwargs

(* C7 (SpecFormat): for a template whose braces are well formed and that   *)
(* holds a named placeholder that is no palette symbol, format_string      *)
(* returns the template after the backslash-n and double-brace             *)
(* replacements, nothing substituted, followed by one reset code.          *)
C7_UnknownNameSubstitutesNothing ==
    ( /\ pc = "format_string"
      /\ Malformed \notin FieldNames(Unescape(args.msg), 1)
      /\ \E name \in FieldNames(Unescape(args.msg), 1) : UnknownName(name) )
    => (ret.raised = "none" /\ ret.value = Unescape(args.msg) \o ENDC)

(* No "{" of s is followed by a "}": s holds no placeholder of any kind.   *)
NoPlaceholder(s) ==
    ~ \E i \in 1..Len(s) : \E j \in (i + 1)..Len(s) : s[i] = "{" /\ s[j] = "}"

(* C8 (SpecFormat): for a string s with no placeholder,                    *)
(* format_string(format_string(s)) is format_string(s) followed by one     *)
(* more reset code.                                                        *)
C8_SecondPassAddsOneReset ==
    /\ (pc = "format_string" /\ NoPlaceholder(args.msg)) => ret.raised = "none"
    /\ (pc = "format_string_again" /\ NoPlaceholder(prev.msg)) =>
           (ret.raised = "none" /\ ret.value = prev.value \o ENDC)

(* C6 (SpecBoolean): with colorize=True, format_boolean returns "Yes" in   *)
(* green and "No" in red when invert_color is False, and "Yes" in red and  *)
(* "No" in green when invert_color is True, for every accepted value.      *)
C6_InvertSwapsColours ==
    (pc = "format_boolean" /\ ret.raised = "none" /\ args.colorize) =>
        LET isTrue == Upper(StrOf(args.value)) = TRUE_STR
            green  == isTrue # args.invert_color
        IN  ret.value = (IF green THEN BRIGHT_GREEN ELSE BRIGHT_RED)
                            \o (IF isTrue THEN <<"Y", "e", "s">> ELSE <<"N", "o">>)
                            \o ENDC

(* Whether the line the loop read last ends the prompt: it equals a legal  *)
(* answer or an alias key in any letter case, or it is empty while a       *)
(* default is set.                                                         *)
TypedMatches ==
    /\ prev.read
    /\ \/ \E i \in 1..Len(args.legal_answers) :
              Upper(args.legal_answers[i]) = Upper(prev.typed)
       \/ Upper(prev.typed) \in alternate_options(args.alternate_legal_answers)
       \/ (prev.typed = <<>> /\ args.default.some)

(* The answer the prompt owes for that line, in upper case: the alias's    *)
(* target, the default for an empty line, else the line itself.            *)
OwedAnswer ==
    IF Upper(prev.typed) \in alternate_options(args.alternate_legal_answers)
    THEN Upper(alternate_legal_answers_upper(args.alternate_legal_answers,
                                             Upper(prev.typed)))
    ELSE IF prev.typed = <<>> /\ args.default.some THEN Upper(args.default.val)
    ELSE Upper(prev.typed)

(* C2 (SpecChoice): for arguments that pass the assertions, legal answers  *)
(* in any letter case, the prompt loop ends at the first input line that   *)
(* matches, and only there, and returns the matched legal answer in upper  *)
(* case.                                                                   *)
C2_EndsAtFirstMatch ==
    [][ /\ (pc = "loop" /\ TypedMatches) => (pc' = "done" /\ ret'.value = OwedAnswer)
        /\ (pc = "loop" /\ pc' = "done") => TypedMatches ]_vars

====
